---- MODULE Spec2Model ----
(***************************************************************************)
(* Lexer and recursive-descent Parser of ProjectCC-Attempt2.cpp.           *)
(*                                                                         *)
(* A source text is a sequence of one-character strings.  Lexer::tokenize  *)
(* is one action (the whole regex scan); Parser::parse runs as a machine   *)
(* of call frames, one action per parse function, each running from its    *)
(* entry (or from the return of a callee) to its next call, return or      *)
(* throw.                                                                  *)
(***************************************************************************)
EXTENDS Integers, Sequences, FiniteSets, TLC

(***************************************************************************)
(* Bounds of the model.                                                    *)
(***************************************************************************)
\* longest source built from lexical pieces
MaxPieces == 3
\* longest source built from statement snippets
MaxStmts == 2
\* calls of tokenize() on one Lexer object
MaxCalls == 2
\* longest hand-built token vector given to a Parser
MaxHandLen == 2
\* largest line number an out-of-bounds tokens[position] read may yield
MaxGarbageLine == 2

(***************************************************************************)
(* enum TokenType                                                          *)
(***************************************************************************)
KEYWORD == "KEYWORD"
IDENTIFIER == "IDENTIFIER"
LITERAL == "LITERAL"
OPERATOR == "OPERATOR"
PUNCTUATION == "PUNCTUATION"
UNKNOWN == "UNKNOWN"

\* struct Token { type, value, line }
Token(t, v, l) == [type |-> t, value |-> v, line |-> l]

(***************************************************************************)
(* Characters.                                                             *)
(***************************************************************************)
LF == "\n"
CR == "\r"
TAB == "\t"
SPACE == " "
QUOTE == "\""

Letters ==
  {"a","b","c","d","e","f","g","h","i","j","k","l","m","n","o","p","q","r",
   "s","t","u","v","w","x","y","z","A","B","C","D","E","F","G","H","I","J",
   "K","L","M","N","O","P","Q","R","S","T","U","V","W","X","Y","Z"}
Digits == {"0","1","2","3","4","5","6","7","8","9"}

\* [a-zA-Z_]
IdStart == Letters \cup {"_"}
\* [a-zA-Z0-9_]
IdChar == IdStart \cup Digits

\* the text of a character sequence, as std::string
RECURSIVE Str(_)
Str(w) == IF w = <<>> THEN "" ELSE Head(w) \o Str(Tail(w))

(***************************************************************************)
(* The alternatives of tokenPatterns, in the order of the regex.           *)
(***************************************************************************)
\* group 1: (std|ifstream|ofstream|fstream|string|while|if|else|return|int)
KeywordAlts ==
  << <<"s","t","d">>,
     <<"i","f","s","t","r","e","a","m">>,
     <<"o","f","s","t","r","e","a","m">>,
     <<"f","s","t","r","e","a","m">>,
     <<"s","t","r","i","n","g">>,
     <<"w","h","i","l","e">>,
     <<"i","f">>,
     <<"e","l","s","e">>,
     <<"r","e","t","u","r","n">>,
     <<"i","n","t">> >>

\* group 4: (::|\.|<<|>>|&&|\+\+|--|<=|>=|==|!=|\+=|-=|/=|\+|-|\|/|<|>)
OperatorAlts ==
  << <<":",":">>, <<".">>, <<"<","<">>, <<">",">">>, <<"&","&">>,
     <<"+","+">>, <<"-","-">>, <<"<","=">>, <<">","=">>, <<"=","=">>,
     <<"!","=">>, <<"+","=">>, <<"-","=">>, <<"/","=">>, <<"+">>, <<"-">>,
     <<"|","/">>, <<"<">>, <<">">> >>

\* group 5: ([;(){}<>\[\],])
PunctuationChars == {";","(",")","{","}","<",">","[","]",","}

\* group 6: ([ \t]+)
WhitespaceChars == {SPACE, TAB}

\* the characters '.' of an ECMAScript regex does not match
LineTerminators == {LF, CR}

\* w occurs in s at position p
HasPrefixAt(s, p, w) ==
  /\ p + Len(w) - 1 <= Len(s)
  /\ \A i \in 1..Len(w) : s[p + i - 1] = w[i]

\* length of the first alternative of alts that matches at p, 0 when none does
FirstAltLen(alts, s, p) ==
  LET hits == {i \in 1..Len(alts) : HasPrefixAt(s, p, alts[i])}
  IN  IF hits = {} THEN 0
      ELSE Len(alts[CHOOSE i \in hits : \A j \in hits : i <= j])

\* length of the longest run of characters of class cls starting at p
RunLen(cls, s, p) ==
  LET ends == {q \in p..(Len(s) + 1) : q > Len(s) \/ s[q] \notin cls}
  IN  (CHOOSE q \in ends : \A r \in ends : q <= r) - p

\* group 2: ([a-zA-Z_][a-zA-Z0-9_]*)
IdentifierLen(s, p) ==
  IF s[p] \in IdStart THEN 1 + RunLen(IdChar, s, p + 1) ELSE 0

\* group 3: (".*?")  -- to the next quote, '.' matching no line terminator
LiteralLen(s, p) ==
  IF s[p] # QUOTE THEN 0
  ELSE LET closers == {q \in (p + 1)..Len(s) : s[q] = QUOTE}
       IN  IF closers = {} THEN 0
           ELSE LET q == CHOOSE c \in closers : \A d \in closers : c <= d
                IN  IF \E k \in (p + 1)..(q - 1) : s[k] \in LineTerminators
                    THEN 0 ELSE q - p + 1

\* group 8: (.)
UnknownLen(s, p) == IF s[p] \in LineTerminators THEN 0 ELSE 1

\* a matcher that takes the longest alternative instead of the first
MatchAtLongest(s, p) ==
  LET lens == << FirstAltLen(KeywordAlts, s, p),
                 IdentifierLen(s, p),
                 LiteralLen(s, p),
                 FirstAltLen(OperatorAlts, s, p),
                 IF s[p] \in PunctuationChars THEN 1 ELSE 0,
                 IF s[p] \in WhitespaceChars
                   THEN RunLen(WhitespaceChars, s, p) ELSE 0,
                 IF s[p] = LF THEN 1 ELSE 0,
                 UnknownLen(s, p) >>
      best == CHOOSE g \in 1..8 :
                /\ \A h \in 1..8 : lens[h] <= lens[g]
                /\ \A h \in 1..(g - 1) : lens[h] < lens[g]
  IN  IF lens[best] = 0 THEN [group |-> 0, len |-> 1]
      ELSE [group |-> best, len |-> lens[best]]

(***************************************************************************)
(* The match of tokenPatterns at position p: the first alternative that    *)
(* matches there.  group 0 means that no alternative matches at p, and     *)
(* regex_search goes on to the next position.                              *)
(***************************************************************************)
MatchAt(s, p) ==
  LET kw == FirstAltLen(KeywordAlts, s, p)
      id == IdentifierLen(s, p)
      li == LiteralLen(s, p)
      op == FirstAltLen(OperatorAlts, s, p)
      un == UnknownLen(s, p)
  IN  IF kw > 0 THEN [group |-> 1, len |-> kw]
      ELSE IF id > 0 THEN [group |-> 2, len |-> id]
      ELSE IF li > 0 THEN [group |-> 3, len |-> li]
      ELSE IF op > 0 THEN [group |-> 4, len |-> op]
      ELSE IF s[p] \in PunctuationChars THEN [group |-> 5, len |-> 1]
      ELSE IF s[p] \in WhitespaceChars
             THEN [group |-> 6, len |-> RunLen(WhitespaceChars, s, p)]
      ELSE IF s[p] = LF THEN [group |-> 7, len |-> 1]
      ELSE IF un > 0 THEN [group |-> 8, len |-> un]
      ELSE [group |-> 0, len |-> 1]

\* match[1] .. match[5], else: the TokenType of a match that emits a token
GroupType(g) ==
  CASE g = 1 -> KEYWORD
    [] g = 2 -> IDENTIFIER
    [] g = 3 -> LITERAL
    [] g = 4 -> OPERATOR
    [] g = 5 -> PUNCTUATION
    [] OTHER -> UNKNOWN

(***************************************************************************)
(* The for loop of Lexer::tokenize over the matches of the regex iterator. *)
(* st is what the loop changes: the tokens vector, the fields line and     *)
(* lineStack of the Lexer; starts records the offset of each token's first *)
(* character (not a field of Token: kept beside the tokens for the         *)
(* properties that speak of positions in the source).                      *)
(***************************************************************************)
LexMatch(st, s, p, m) ==
  LET text == Str(SubSeq(s, p, p + m.len - 1))
      emit == [st EXCEPT !.tokens = Append(@, Token(GroupType(m.group), text, st.line)),
                         !.starts = Append(@, p)]
  IN  CASE m.group \in {1, 2, 3, 4} -> emit
        [] m.group = 5 ->
             IF text = "{" \/ text = "}"
             THEN [emit EXCEPT !.lineStack = Append(@, st.line)]
             ELSE emit
        [] m.group = 6 -> st
        [] m.group = 7 -> [st EXCEPT !.line = @ + 1]
        [] m.group = 8 -> emit
        [] OTHER -> st

RECURSIVE Scan(_, _, _)
Scan(s, p, st) ==
  IF p > Len(s) THEN st
  ELSE LET m == MatchAt(s, p)
       IN  Scan(s, p + m.len, LexMatch(st, s, p, m))

(***************************************************************************)
(* Inputs.  A source is a concatenation of at most MaxPieces lexical       *)
(* pieces, or of at most MaxStmts statement snippets.                      *)
(***************************************************************************)
Pieces ==
  { <<"i","n","t">>, <<"e","g","e","r">>, <<"a">>, <<LF>>, <<CR>>, <<SPACE>>,
    <<"<">>, <<">">>, <<"!">>, <<QUOTE>>, <<"{">>, <<";">> }

Snippets ==
  { <<"i","n","t"," ","a",";">>,
    <<"i","n","t"," ","a",","," ","b",";">>,
    <<"i","n","t"," ","a",LF>>,
    <<"f","o","o",".","b","a","r","(",")",";">>,
    <<"w","h","i","l","e"," ","(","x",")"," ","{",LF>>,
    <<"w","h","i","l","e"," ","(","!","x",")"," ","{"," ","}">>,
    <<"w","h","i","l","e","(","{",")","{","}">>,
    <<"f","o","r","(","x",";","x",";","x",")","{","}">>,
    <<"i","f","(","x",")","{">>,
    <<"i","f","s","t","r","e","a","m"," ","f","(",QUOTE,"n",QUOTE,")",";">>,
    <<"}">>,
    <<"@">>,
    <<TAB, LF>> }

\* the concatenations of at most n members of parts
RECURSIVE Concats(_, _)
Concats(parts, n) ==
  IF n = 0 THEN { <<>> }
  ELSE LET shorter == Concats(parts, n - 1)
       IN  shorter \cup {s \o w : s \in shorter, w \in parts}

Sources == Concats(Pieces, MaxPieces) \cup Concats(Snippets, MaxStmts)

(***************************************************************************)
(* Token vectors a caller builds by hand and gives to a Parser.            *)
(***************************************************************************)
Kw(v) == Token(KEYWORD, v, 1)
Id(v) == Token(IDENTIFIER, v, 1)
Pu(v) == Token(PUNCTUATION, v, 1)

Phrases ==
  { << Kw("while"), Pu("("), Token(OPERATOR, "!", 1), Id("x"), Pu(")"),
       Pu("{"), Pu("}") >>,
    << Kw("for"), Pu("("), Id("x"), Pu(";"), Id("x"), Pu(";"), Id("x"),
       Pu(")"), Pu("{") >>,
    << Pu("}") >>,
    << Id("foo"), Pu("."), Id("bar"), Pu("("), Pu(")"), Pu(";") >>,
    << Kw("if"), Pu("("), Token(OPERATOR, "!", 1) >>,
    << Kw("int"), Id("a"), Pu(";") >> }

HandVectors == Concats(Phrases, MaxHandLen)

(***************************************************************************)
(* AST nodes.                                                              *)
(***************************************************************************)
nullptr == [node |-> "nullptr"]
IdentifierNode(name) == [node |-> "Identifier", name |-> name]
DeclarationNode(type, identifiers) ==
  [node |-> "Declaration", type |-> type, identifiers |-> identifiers]
UnaryOperationNode(op, right) ==
  [node |-> "UnaryOperation", op |-> op, right |-> right]

(***************************************************************************)
(* State.                                                                  *)
(***************************************************************************)
VARIABLES
  source,          \* Lexer::source
  line,            \* Lexer::line
  lexerLineStack,  \* Lexer::lineStack
  calls,           \* the vectors the calls of tokenize() returned, in order
  starts,          \* offsets of the first characters of the last call's tokens
  tokens,          \* Parser::tokens
  position,        \* Parser::position
  bracketStack,    \* Parser::bracketStack
  lineStack,       \* Parser::lineStack
  frames,          \* the call stack of the parse in progress, innermost last
  ret,             \* the value the last parse function that returned gave back
  status,          \* "none", "ready", "running", "returned", "threw", "crashed"
  error,           \* the exception that left parse(), NoError when none
  syntaxTree       \* what parse() returned to its caller

lexerVars == <<source, line, lexerLineStack, calls, starts>>
parserVars == <<tokens, position, bracketStack, lineStack, frames, ret, status,
                error, syntaxTree>>
vars == <<source, line, lexerLineStack, calls, starts, tokens, position,
          bracketStack, lineStack, frames, ret, status, error, syntaxTree>>

NoError == [kind |-> "none", what |-> "", line |-> 0]
NoTree == [node |-> "none"]

\* Lexer::Lexer(source), and no Parser yet
Init ==
  /\ source \in Sources
  /\ line = 1
  /\ lexerLineStack = <<>>
  /\ calls = <<>>
  /\ starts = <<>>
  /\ tokens = <<>>
  /\ position = 0
  /\ bracketStack = <<>>
  /\ lineStack = <<>>
  /\ frames = <<>>
  /\ ret = nullptr
  /\ status = "none"
  /\ error = NoError
  /\ syntaxTree = NoTree

\* Lexer::tokenize()
Tokenize ==
  /\ status = "none"
  /\ Len(calls) < MaxCalls
  /\ LET st == Scan(source, 1, [tokens |-> <<>>, starts |-> <<>>,
                                line |-> line, lineStack |-> lexerLineStack])
     IN  /\ calls' = Append(calls, st.tokens)
         /\ starts' = st.starts
         /\ line' = st.line
         /\ lexerLineStack' = st.lineStack
  /\ UNCHANGED <<source, parserVars>>

(***************************************************************************)
(* Parser: the helpers at the end of the class.  position counts from 0    *)
(* as in the code; the vector tokens is indexed from 1 here, so the code's *)
(* tokens[i] is tokens[i + 1].                                             *)
(***************************************************************************)
isAtEnd(pos) == pos >= Len(tokens)
peek(pos) == tokens[pos + 1]
previous(pos) == tokens[pos]

\* the test of match(type, value); a successful match advances by one
matches(pos, type, value) ==
  /\ ~isAtEnd(pos)
  /\ peek(pos).type = type
  /\ (value = "" \/ peek(pos).value = value)

\* advance(): the position after it
advance(pos) == IF ~isAtEnd(pos) THEN pos + 1 ELSE pos

Push(stack, x) == Append(stack, x)
Pop(stack) == SubSeq(stack, 1, Len(stack) - 1)
Top(stack) == stack[Len(stack)]

\* a call frame: the function, where it goes on, its local op, and the
\* cursor and the depth of the bracket tracker when it was called
Frame(fn, pc, pos, depth) ==
  [fn |-> fn, pc |-> pc, op |-> "", entry |-> pos, depth |-> depth]

\* the innermost frame is function fn, about to run from pc
At(fn, pc) ==
  /\ status = "running"
  /\ frames # <<>>
  /\ Top(frames).fn = fn
  /\ Top(frames).pc = pc

(***************************************************************************)
(* The three ways a parse function's step ends.  Each states the whole     *)
(* next state of the Parser: pos, bs and ls are the position and the two   *)
(* stacks as the step leaves them.                                         *)
(***************************************************************************)
\* throw runtime_error(what + " at line " + to_string(peek().line)): nothing
\* catches inside the Parser, so the exception leaves parse().  With the
\* cursor at the end, peek() reads tokens[tokens.size()]: the copy of that
\* Token may fault, may throw from the string copy, or may yield any line.
Throw(pos, bs, ls, kind, what) ==
  /\ position' = pos
  /\ bracketStack' = bs
  /\ lineStack' = ls
  /\ frames' = <<>>
  /\ UNCHANGED <<tokens, ret, syntaxTree, lexerVars>>
  /\ IF ~isAtEnd(pos)
     THEN /\ status' = "threw"
          /\ error' = [kind |-> kind, what |-> what, line |-> peek(pos).line]
     ELSE \/ /\ status' = "crashed"
             /\ error' = NoError
          \/ /\ status' = "threw"
             /\ error' = [kind |-> "bad_alloc", what |-> "", line |-> 0]
          \/ /\ status' = "threw"
             /\ \E g \in 0..MaxGarbageLine :
                  error' = [kind |-> kind, what |-> what, line |-> g]

\* return value
Return(pos, bs, ls, value) ==
  /\ position' = pos
  /\ bracketStack' = bs
  /\ lineStack' = ls
  /\ frames' = Pop(frames)
  /\ ret' = value
  /\ UNCHANGED <<tokens, status, error, syntaxTree, lexerVars>>

\* call callee(); the caller goes on from pc when the callee has returned
Call(pos, bs, ls, pc, callee, op) ==
  /\ position' = pos
  /\ bracketStack' = bs
  /\ lineStack' = ls
  /\ frames' = Append([frames EXCEPT ![Len(frames)].pc = pc,
                                    ![Len(frames)].op = op],
                      Frame(callee, "start", pos, Len(bs)))
  /\ UNCHANGED <<tokens, ret, status, error, syntaxTree, lexerVars>>

Expected == "ExpectedToken"
Unexpected == "UnexpectedToken"
Mismatched == "MismatchedBracket"

(***************************************************************************)
(* Parser construction and parse().                                        *)
(***************************************************************************)
\* Parser parser(tokens) on the vector the last tokenize() returned
NewParser ==
  /\ status = "none"
  /\ calls # <<>>
  /\ tokens' = calls[Len(calls)]
  /\ position' = 0
  /\ bracketStack' = <<>>
  /\ lineStack' = <<>>
  /\ status' = "ready"
  /\ UNCHANGED <<frames, ret, error, syntaxTree, lexerVars>>

\* Parser parser(v) on a vector the caller built; no Lexer takes part, and
\* the model keeps its source empty then
NewParserByHand ==
  /\ status = "none"
  /\ calls = <<>>
  /\ source = <<>>
  /\ \E v \in HandVectors : tokens' = v
  /\ position' = 0
  /\ bracketStack' = <<>>
  /\ lineStack' = <<>>
  /\ status' = "ready"
  /\ UNCHANGED <<frames, ret, error, syntaxTree, lexerVars>>

\* parse() calls parseProgram()
Parse ==
  /\ status = "ready"
  /\ status' = "running"
  /\ frames' = <<Frame("parse", "ret", position, 0),
                 Frame("parseProgram", "loop", position, 0)>>
  /\ UNCHANGED <<tokens, position, bracketStack, lineStack, ret, error,
                 syntaxTree, lexerVars>>

\* parse() returns what parseProgram() returned
ParseReturn ==
  /\ At("parse", "ret")
  /\ syntaxTree' = ret
  /\ status' = "returned"
  /\ frames' = <<>>
  /\ UNCHANGED <<tokens, position, bracketStack, lineStack, ret, error,
                 lexerVars>>

\* parseProgram(): one turn of its loop, or what follows the loop
ParseProgram ==
  /\ At("parseProgram", "loop")
  /\ IF ~isAtEnd(position)
     THEN Call(position, bracketStack, lineStack, "loop", "parseStatement", "")
     ELSE IF bracketStack # <<>>
     THEN /\ status' = "threw"
          /\ error' = [kind |-> Mismatched, what |-> "brackets",
                       line |-> Top(lineStack)]
          /\ frames' = <<>>
          /\ UNCHANGED <<tokens, position, bracketStack, lineStack, ret,
                         syntaxTree, lexerVars>>
     ELSE Return(position, bracketStack, lineStack, nullptr)

(***************************************************************************)
(* parseStatement()                                                        *)
(***************************************************************************)
\* the dispatch: the first match() that succeeds has consumed the token
ParseStatement ==
  /\ At("parseStatement", "start")
  /\ LET p == position
         bs == bracketStack
         ls == lineStack
     IN  IF matches(p, KEYWORD, "int")
           THEN Call(p + 1, bs, ls, "ret", "parseVariableDeclaration", "")
         ELSE IF \/ matches(p, KEYWORD, "ifstream")
                 \/ matches(p, KEYWORD, "ofstream")
                 \/ matches(p, KEYWORD, "fstream")
           THEN Call(p + 1, bs, ls, "ret", "parseFileDeclaration", "")
         ELSE IF matches(p, IDENTIFIER, "")
           THEN Call(p + 1, bs, ls, "ret", "parseFileOperation", "")
         ELSE IF matches(p, KEYWORD, "if")
           THEN Call(p + 1, bs, ls, "ret", "parseIfStatement", "")
         ELSE IF matches(p, KEYWORD, "while")
           THEN Call(p + 1, bs, ls, "ret", "parseWhileStatement", "")
         ELSE IF matches(p, KEYWORD, "for")
           THEN Call(p + 1, bs, ls, "ret", "parseForStatement", "")
         ELSE Throw(p, bs, ls, Unexpected,
                    IF isAtEnd(p) THEN "" ELSE peek(p).value)

\* the statement's parse function has returned: its node is dropped
ParseStatementReturn ==
  /\ At("parseStatement", "ret")
  /\ Return(position, bracketStack, lineStack, NoTree)

(***************************************************************************)
(* parseVariableDeclaration()                                              *)
(***************************************************************************)
\* do { match(IDENTIFIER) or fail } while (match(PUNCTUATION, ","))
RECURSIVE DeclarationList(_, _)
DeclarationList(pos, ids) ==
  IF matches(pos, IDENTIFIER, "")
  THEN LET more == Append(ids, IdentifierNode(peek(pos).value))
       IN  IF matches(pos + 1, PUNCTUATION, ",")
           THEN DeclarationList(pos + 2, more)
           ELSE [ok |-> TRUE, pos |-> pos + 1, ids |-> more]
  ELSE [ok |-> FALSE, pos |-> pos, ids |-> ids]

ParseVariableDeclaration ==
  /\ At("parseVariableDeclaration", "start")
  /\ LET type == previous(position).value
         list == DeclarationList(position, <<>>)
         bs == bracketStack
         ls == lineStack
     IN  IF ~list.ok
           THEN Throw(list.pos, bs, ls, Expected,
                      "identifier in variable declaration")
         ELSE IF ~matches(list.pos, PUNCTUATION, ";")
           THEN Throw(list.pos, bs, ls, Expected,
                      "';' at the end of variable declaration")
         ELSE Return(list.pos + 1, bs, ls, DeclarationNode(type, list.ids))

(***************************************************************************)
(* parseFileDeclaration()                                                  *)
(***************************************************************************)
ParseFileDeclaration ==
  /\ At("parseFileDeclaration", "start")
  /\ LET p == position
         bs == bracketStack
         ls == lineStack
         bs1 == Push(bs, "(")
         ls1 == Push(ls, previous(p + 2).line)
     IN  IF ~matches(p, IDENTIFIER, "")
           THEN Throw(p, bs, ls, Expected,
                      "identifier after file declaration keyword")
         ELSE IF ~matches(p + 1, PUNCTUATION, "(")
           THEN Throw(p + 1, bs, ls, Expected,
                      "'(' after file declaration identifier")
         ELSE IF ~matches(p + 2, LITERAL, "")
           THEN Throw(p + 2, bs1, ls1, Expected,
                      "filename literal in file declaration")
         ELSE IF ~matches(p + 3, PUNCTUATION, ")")
           THEN Throw(p + 3, bs1, ls1, Expected,
                      "')' after filename literal in file declaration")
         ELSE IF ~matches(p + 4, PUNCTUATION, ";")
           THEN Throw(p + 4, Pop(bs1), Pop(ls1), Expected,
                      "';' at the end of file declaration")
         ELSE Return(p + 5, Pop(bs1), Pop(ls1),
                     IdentifierNode(previous(p + 1).value))

(***************************************************************************)
(* parseFileOperation()                                                    *)
(***************************************************************************)
ParseFileOperation ==
  /\ At("parseFileOperation", "start")
  /\ LET p == position
         bs == bracketStack
         ls == lineStack
         bs1 == Push(bs, "(")
         ls1 == Push(ls, previous(p + 3).line)
     IN  IF ~matches(p, PUNCTUATION, ".")
           THEN Throw(p, bs, ls, Unexpected, "token after file identifier")
         ELSE IF ~matches(p + 1, IDENTIFIER, "")
           THEN Throw(p + 1, bs, ls, Expected,
                      "method name after '.' in file operation")
         ELSE IF ~matches(p + 2, PUNCTUATION, "(")
           THEN Throw(p + 2, bs, ls, Expected,
                      "'(' after method name in file operation")
         ELSE IF ~matches(p + 3, PUNCTUATION, ")")
           THEN Throw(p + 3, bs1, ls1, Expected, "')' in file operation")
         ELSE IF ~matches(p + 4, PUNCTUATION, ";")
           THEN Throw(p + 4, Pop(bs1), Pop(ls1), Expected,
                      "';' at the end of file operation")
         ELSE Return(p + 5, Pop(bs1), Pop(ls1),
                     IdentifierNode(previous(p).value))

(***************************************************************************)
(* The parts parseIfStatement, parseWhileStatement and parseForStatement   *)
(* repeat word for word, but for the text of their messages.               *)
(***************************************************************************)
\* match '(' or throw; push it; parseExpression()
OpenParen(what, pc) ==
  LET p == position
  IN  IF ~matches(p, PUNCTUATION, "(")
      THEN Throw(p, bracketStack, lineStack, Expected, what)
      ELSE Call(p + 1, Push(bracketStack, "("),
                Push(lineStack, previous(p + 1).line), pc,
                "parseExpression", "")

\* a body that returns on '}' and leaves its '{' on the two stacks
BodyNoPop(p, bs, ls) ==
  IF matches(p, PUNCTUATION, "}")
  THEN Return(p + 1, bs, ls, nullptr)
  ELSE Call(p, bs, ls, "body", "parseStatement", "")

\* while (!match(PUNCTUATION, "}")) parseStatement();  then pop and return
Body(p, bs, ls) ==
  IF matches(p, PUNCTUATION, "}")
  THEN Return(p + 1, Pop(bs), Pop(ls), nullptr)
  ELSE Call(p, bs, ls, "body", "parseStatement", "")

\* match ')' or throw; pop; match '{' or throw; push it; the body
CloseParenOpenBrace(whatParen, whatBrace) ==
  LET p == position
      bs == Pop(bracketStack)
      ls == Pop(lineStack)
  IN  IF ~matches(p, PUNCTUATION, ")")
      THEN Throw(p, bracketStack, lineStack, Expected, whatParen)
      ELSE IF ~matches(p + 1, PUNCTUATION, "{")
      THEN Throw(p + 1, bs, ls, Expected, whatBrace)
      ELSE Body(p + 2, Push(bs, "{"), Push(ls, previous(p + 2).line))

\* match ';' or throw; parseExpression()
Semicolon(what, pc) ==
  LET p == position
  IN  IF ~matches(p, PUNCTUATION, ";")
      THEN Throw(p, bracketStack, lineStack, Expected, what)
      ELSE Call(p + 1, bracketStack, lineStack, pc, "parseExpression", "")

ParseIfStatement ==
  \/ /\ At("parseIfStatement", "start")
     /\ OpenParen("'(' after 'if'", "cond")
  \/ /\ At("parseIfStatement", "cond")
     /\ CloseParenOpenBrace("')' after condition in 'if' statement",
                            "'{' after 'if' condition")
  \/ /\ At("parseIfStatement", "body")
     /\ Body(position, bracketStack, lineStack)

ParseWhileStatement ==
  \/ /\ At("parseWhileStatement", "start")
     /\ OpenParen("'(' after 'while'", "cond")
  \/ /\ At("parseWhileStatement", "cond")
     /\ CloseParenOpenBrace("')' after condition in 'while' statement",
                            "'{' after 'while' condition")
  \/ /\ At("parseWhileStatement", "body")
     /\ Body(position, bracketStack, lineStack)

ParseForStatement ==
  \/ /\ At("parseForStatement", "start")
     /\ OpenParen("'(' after 'for'", "init")
  \/ /\ At("parseForStatement", "init")
     /\ Semicolon("';' after initialization in 'for' statement", "cond")
  \/ /\ At("parseForStatement", "cond")
     /\ Semicolon("';' after condition in 'for' statement", "incr")
  \/ /\ At("parseForStatement", "incr")
     /\ CloseParenOpenBrace("')' after increment in 'for' statement",
                            "'{' after 'for' header")
  \/ /\ At("parseForStatement", "body")
     /\ Body(position, bracketStack, lineStack)

(***************************************************************************)
(* parseExpression()                                                       *)
(***************************************************************************)
ParseExpression ==
  \/ /\ At("parseExpression", "start")
     /\ IF matches(position, OPERATOR, "!")
        THEN Call(position + 1, bracketStack, lineStack, "operand",
                  "parseExpression", previous(position + 1).value)
        ELSE Return(advance(position), bracketStack, lineStack, nullptr)
  \/ /\ At("parseExpression", "operand")
     /\ Return(position, bracketStack, lineStack,
               UnaryOperationNode(Top(frames).op, ret))

(***************************************************************************)
(* The specification.                                                      *)
(***************************************************************************)
Next ==
  \/ Tokenize
  \/ NewParser
  \/ NewParserByHand
  \/ Parse
  \/ ParseProgram
  \/ ParseStatement
  \/ ParseStatementReturn
  \/ ParseVariableDeclaration
  \/ ParseFileDeclaration
  \/ ParseFileOperation
  \/ ParseIfStatement
  \/ ParseWhileStatement
  \/ ParseForStatement
  \/ ParseExpression
  \/ ParseReturn

Spec == Init /\ [][Next]_vars

(***************************************************************************)
(* Vocabulary of the properties.                                           *)
(***************************************************************************)
\* parse() has ended: it returned, an exception left it, or the process died
Terminal == status \in {"returned", "threw", "crashed"}

\* the Parser was built on the vector the last tokenize() returned
FromLexer == status # "none" /\ calls # <<>>

\* the vector of the last tokenize() call
LastCall == calls[Len(calls)]

\* the values of a token vector, in order
Values(toks) == [k \in 1..Len(toks) |-> toks[k].value]
Types(toks) == [k \in 1..Len(toks) |-> toks[k].type]

\* the number of newline characters before offset p of the source
NewlinesBefore(p) == Cardinality({q \in 1..(p - 1) : source[q] = LF})

\* the offsets of the source that token k of the last call covers
Span(k) == starts[k]..(starts[k] + Len(LastCall[k].value) - 1)

\* a parse function has just been entered from the dispatch of parseStatement
JustDispatched ==
  /\ status = "running"
  /\ Len(frames) >= 2
  /\ Top(frames).pc = "start"
  /\ frames[Len(frames) - 1].fn = "parseStatement"

SyntaxErrors == {Expected, Unexpected, Mismatched}

(***************************************************************************)
(* C1.  A statement Identifier '.' Identifier '(' ')' ';' that came        *)
(* through tokenize() is dispatched as a member call (parseFileOperation)  *)
(* and parse() completes without raising an error.                         *)
(***************************************************************************)
MemberCallShape ==
  /\ Len(tokens) = 6
  /\ tokens[1].type = IDENTIFIER
  /\ tokens[3].type = IDENTIFIER
  /\ Values(tokens) = <<tokens[1].value, ".", tokens[3].value, "(", ")", ";">>

\* C1: a lexed Identifier '.' Identifier '(' ')' ';' is dispatched to
\* parseFileOperation and parse() returns with no error
C1_MemberCallAccepted ==
  (FromLexer /\ MemberCallShape) =>
     /\ (JustDispatched /\ position = 1) => Top(frames).fn = "parseFileOperation"
     /\ Terminal => (status = "returned" /\ error = NoError)

\* what the code does with it: the '.' arrives as an OPERATOR token and
\* parseFileOperation, which matches PUNCTUATION ".", throws
C1_MemberCallRejected ==
  (FromLexer /\ MemberCallShape /\ Terminal) =>
     /\ status = "threw"
     /\ error.kind = Unexpected
     /\ error.what = "token after file identifier"
     /\ tokens[2].type = OPERATOR
     /\ position = 1

(***************************************************************************)
(* C2.  When exactly one '{', opened by the body of an if, while or for,   *)
(* is still open at the end of the token sequence, parse() raises the      *)
(* mismatched-bracket error and cites the line of that '{'.                *)
(***************************************************************************)
\* the loop of a body asks for its next statement with no token left and
\* only the body's own '{' on the bracket tracker
BodyOpenAtEnd ==
  /\ At("parseStatement", "start")
  /\ isAtEnd(position)
  /\ bracketStack = <<"{">>

\* C2: with one body '{' left open at the end of the tokens, parse() throws
\* the mismatched-bracket error citing the line of that '{'
C2_UnclosedBraceReported ==
  [][BodyOpenAtEnd =>
       /\ status' = "threw"
       /\ error'.kind = Mismatched
       /\ error'.line = lineStack[1]]_vars

\* what the code does there: the dispatch of parseStatement falls to its
\* last branch and reads peek() past the end; the bracket check at the end
\* of parseProgram is not reached
C2_UnclosedBraceNeverReported ==
  /\ error.kind # Mismatched
  /\ (Terminal /\ position = Len(tokens) /\ bracketStack = <<"{">>
        /\ status = "threw" /\ error.kind = Unexpected) => error.what = ""

(***************************************************************************)
(* C3.  When the token sequence ends where the grammar still requires a    *)
(* token, parse() raises an expected-token error that names the missing    *)
(* token and cites the line where it was expected (the line of the last    *)
(* token), and reads no token beyond the end of the sequence.              *)
(***************************************************************************)
\* a step of a parse function whose throw statements all read
\* "Expected ..." ends the parse with the cursor at the end of the tokens
ExpectedAtEnd ==
  /\ status = "running"
  /\ status' # "running"
  /\ Top(frames).fn \in {"parseVariableDeclaration", "parseFileDeclaration",
                         "parseIfStatement", "parseWhileStatement",
                         "parseForStatement"}
  /\ isAtEnd(position')

\* C3: a parse that ends at the end of the tokens for want of a token ends
\* by an expected-token error citing the line of the last token (no crash,
\* no other exception, no other line: nothing is read past the end)
C3_ExpectedTokenAtEnd ==
  [][ExpectedAtEnd =>
       /\ status' = "threw"
       /\ error'.kind = Expected
       /\ error'.line = Top(tokens).line]_vars

(***************************************************************************)
(* C4.  A statement whose first word is 'for', having come through         *)
(* tokenize(), is dispatched to parseForStatement, and a source            *)
(* for ( E ; E ; E ) { } with single-token expressions is accepted.        *)
(***************************************************************************)
ForShape ==
  /\ Len(tokens) = 10
  /\ Values(tokens) = <<"for", "(", tokens[3].value, ";", tokens[5].value,
                        ";", tokens[7].value, ")", "{", "}">>

\* C4: a lexed statement starting with 'for' is dispatched to
\* parseForStatement, and for ( E ; E ; E ) { } is accepted with no error
C4_ForAccepted ==
  FromLexer =>
     /\ (JustDispatched /\ previous(position).value = "for")
           => Top(frames).fn = "parseForStatement"
     /\ (ForShape /\ Terminal) => (status = "returned" /\ error = NoError)

\* what the code does: "for" is no alternative of the keyword group, so it
\* is an IDENTIFIER and the dispatch takes it for the start of a member call
C4_ForIsIdentifier ==
  FromLexer =>
     /\ \A k \in 1..Len(tokens) :
          tokens[k].value = "for" => tokens[k].type = IDENTIFIER
     /\ (JustDispatched /\ previous(position).value = "for")
           => Top(frames).fn = "parseFileOperation"

(***************************************************************************)
(* C5.  For the source "int a, b;" tokenize() yields Keyword int,          *)
(* Identifier a, Punctuation ',', Identifier b, Punctuation ';', and a     *)
(* successful parse() returns the Declaration node of type "int" with the  *)
(* identifiers a and b.                                                    *)
(***************************************************************************)
IntAB == <<"i","n","t"," ","a",","," ","b",";">>

IntABTokens ==
  << Token(KEYWORD, "int", 1), Token(IDENTIFIER, "a", 1),
     Token(PUNCTUATION, ",", 1), Token(IDENTIFIER, "b", 1),
     Token(PUNCTUATION, ";", 1) >>

IntABNode == DeclarationNode("int", <<IdentifierNode("a"), IdentifierNode("b")>>)

\* C5: "int a, b;" gives the five tokens, and parse(), when it returns,
\* returns Declaration{type "int", identifiers [a, b]}
C5_DeclarationReturned ==
  (source = IntAB /\ calls # <<>>) =>
     /\ calls[1] = IntABTokens
     /\ status = "returned" => syntaxTree = IntABNode

\* what the code does: parseVariableDeclaration builds the node,
\* parseStatement drops it, and parseProgram returns nullptr
C5_NullReturned ==
  /\ status = "returned" => syntaxTree = nullptr
  /\ (source = IntAB /\ FromLexer /\ At("parseStatement", "ret"))
        => ret = IntABNode

(***************************************************************************)
(* C6.  tokenize() loses nothing: every character of the source is part of *)
(* exactly one emitted token or is a discarded space, tab or newline, each *)
(* token's text is the characters it covers, and a character no rule       *)
(* classifies, a carriage return included, is emitted as a one-character   *)
(* Unknown token.                                                          *)
(***************************************************************************)
\* the tokens of the last call that cover offset p
Covering(p) == {k \in 1..Len(LastCall) : p \in Span(k)}

\* C6: after tokenize() every character is in exactly one token or is a
\* dropped space, tab or newline; a carriage return is an UNKNOWN token
C6_EveryCharacterAccounted ==
  calls # <<>> =>
     /\ Len(starts) = Len(LastCall)
     /\ \A k \in 1..Len(LastCall) :
          LastCall[k].value =
             Str(SubSeq(source, starts[k], starts[k] + Len(LastCall[k].value) - 1))
     /\ \A p \in 1..Len(source) :
          \/ Cardinality(Covering(p)) = 1
          \/ Covering(p) = {} /\ source[p] \in {SPACE, TAB, LF}
     /\ \A p \in 1..Len(source) :
          source[p] = CR =>
             \E k \in 1..Len(LastCall) :
                starts[k] = p /\ LastCall[k].type = UNKNOWN
                              /\ LastCall[k].value = CR

\* what the code does: a carriage return is in no token ('.' matches no
\* line terminator), and everything else is accounted for
C6_OnlyCarriageReturnLost ==
  calls # <<>> =>
     \A p \in 1..Len(source) :
        \/ Cardinality(Covering(p)) = 1
        \/ Covering(p) = {} /\ source[p] \in {SPACE, TAB, LF, CR}

(***************************************************************************)
(* C7.  Every emitted token's line is 1 plus the number of newline         *)
(* characters before the token's first character in the source, and lines  *)
(* never decrease along the token sequence.                                *)
(***************************************************************************)
\* C7: every token of a tokenize() call has line = 1 + the newlines before
\* its first character, and lines never decrease along the vector
C7_LineIsNewlinesPlusOne ==
  calls # <<>> =>
     /\ \A k \in 1..Len(LastCall) :
          LastCall[k].line = 1 + NewlinesBefore(starts[k])
     /\ \A j, k \in 1..Len(LastCall) :
          j <= k => LastCall[j].line <= LastCall[k].line

\* what the code does: the first call on a Lexer counts from 1, a later
\* call from where the call before it stopped
C7_LineOnFirstCall ==
  Len(calls) = 1 =>
     \A k \in 1..Len(LastCall) :
        LastCall[k].line = 1 + NewlinesBefore(starts[k])

(***************************************************************************)
(* C8.  Two successive tokenize() calls on the same Lexer object yield     *)
(* sequences identical in kind, text and line of every token.              *)
(***************************************************************************)
\* C8: all the calls of tokenize() on one Lexer return the same vector
C8_TokenizeIdempotent ==
  \A i, j \in 1..Len(calls) : calls[i] = calls[j]

\* what the code does: kinds and texts agree; the lines of a later call are
\* shifted by the newlines of the source, the field line never being reset
C8_LinesShifted ==
  \A i \in 1..Len(calls) :
     /\ Types(calls[i]) = Types(calls[1])
     /\ Values(calls[i]) = Values(calls[1])
     /\ \A k \in 1..Len(calls[i]) :
          calls[i][k].line =
             calls[1][k].line + (i - 1) * NewlinesBefore(Len(source) + 1)

(***************************************************************************)
(* C9.  On the tokens tokenize() produces, parseExpression recognizes a    *)
(* unary-not prefix: for a condition '!' followed by one token it consumes *)
(* the '!' as the operator, builds UnaryOperation('!', operand), and the   *)
(* enclosing statement parses without error; for any other leading token   *)
(* it consumes exactly one token and returns no node.                      *)
(***************************************************************************)
\* while ( ! t ) { } : seven tokens, the condition a '!' and one more token
WhileNotShape ==
  /\ Len(tokens) = 7
  /\ Values(tokens) = <<"while", "(", "!", tokens[4].value, ")", "{", "}">>

\* parseExpression has returned to the if or while statement that called
\* it for its condition; the condition starts one token after the '(' that
\* the statement was entered at
ConditionParsed ==
  /\ status = "running"
  /\ frames # <<>>
  /\ Top(frames).fn \in {"parseIfStatement", "parseWhileStatement"}
  /\ Top(frames).pc = "cond"

\* the token the condition starts with, and the one after it
CondFirst == Top(frames).entry + 2

\* C9: on lexed tokens a condition '!' t makes parseExpression consume both
\* tokens and return UnaryOperation('!', ..), and while ( ! t ) { } parses
\* with no error; any other condition consumes one token and returns nullptr
C9_UnaryNotRecognized ==
  FromLexer =>
     /\ (ConditionParsed /\ CondFirst + 1 <= Len(tokens)
           /\ tokens[CondFirst].value = "!"
           /\ tokens[CondFirst + 1].value # "!")
           => /\ position = CondFirst + 1
              /\ ret = UnaryOperationNode("!", nullptr)
     /\ (WhileNotShape /\ Terminal) => (status = "returned" /\ error = NoError)
     /\ (ConditionParsed /\ CondFirst <= Len(tokens)
           /\ tokens[CondFirst].value # "!")
           => (position = CondFirst /\ ret = nullptr)

\* what the code does: tokenize() has no operator alternative for a lone
\* '!', which is therefore UNKNOWN; parseExpression matches OPERATOR "!",
\* so it takes the '!' for the whole expression
C9_NotIsUnknown ==
  FromLexer =>
     /\ \A k \in 1..Len(tokens) :
          tokens[k].value = "!" => tokens[k].type = UNKNOWN
     /\ (ConditionParsed /\ CondFirst <= Len(tokens))
           => (position = CondFirst /\ ret = nullptr)
     /\ (WhileNotShape /\ Terminal)
           => (status = "threw" /\ error.kind = Expected /\ position = 3)

\* on a vector built by hand with OPERATOR "!" the prefix is recognized
C9_HandBuiltNotRecognized ==
  (calls = <<>> /\ ConditionParsed /\ CondFirst + 1 <= Len(tokens)
     /\ tokens[CondFirst] = Token(OPERATOR, "!", 1)
     /\ tokens[CondFirst + 1].value # "!")
     => (position = CondFirst + 1 /\ ret = UnaryOperationNode("!", nullptr))

(***************************************************************************)
(* C10.  parse() ends in exactly one of two outcomes: success with the     *)
(* cursor at the length of the token sequence and both stacks of the       *)
(* bracket tracker empty, or a raised syntax error; the cursor never       *)
(* decreases.                                                              *)
(***************************************************************************)
Success ==
  /\ status = "returned"
  /\ position = Len(tokens)
  /\ bracketStack = <<>>
  /\ lineStack = <<>>

SyntaxErrorRaised == status = "threw" /\ error.kind \in SyntaxErrors

\* C10: the cursor never decreases, and parse() ends either returned with
\* the cursor at the end and both stacks empty, or by a syntax error
C10_TwoOutcomes ==
  [][/\ position' >= position
     /\ Terminal' => (Success' \/ SyntaxErrorRaised')]_vars

\* what the code does when no token is left where one is required: the
\* message of the error is built from peek(), which reads past the end
C10_OtherOutcomesOnlyAtEnd ==
  /\ (Terminal /\ ~Success /\ ~SyntaxErrorRaised) => isAtEnd(position)
  /\ status = "running" => ENABLED Next

(***************************************************************************)
(* C11.  At every point of a parse, every '(' or '{' token the cursor has  *)
(* moved past has been pushed onto the bracket tracker with its line, and  *)
(* is popped only when its matching ')' or '}' is consumed; also when the  *)
(* bracket is the one token parseExpression consumes.                      *)
(***************************************************************************)
Openers == {"(", "{"}
Closer(o) == IF o = "(" THEN ")" ELSE "}"

\* the tracker as the claim describes it, after the cursor has moved past
\* the first n tokens: an opener is pushed with its line, and the opener on
\* top is popped by the closer that matches it
RECURSIVE Tracked(_)
Tracked(n) ==
  IF n = 0 THEN [openers |-> <<>>, lines |-> <<>>]
  ELSE LET before == Tracked(n - 1)
           tok == tokens[n]
       IN  IF tok.type = PUNCTUATION /\ tok.value \in Openers
           THEN [openers |-> Push(before.openers, tok.value),
                 lines |-> Push(before.lines, tok.line)]
           ELSE IF /\ tok.type = PUNCTUATION
                   /\ before.openers # <<>>
                   /\ tok.value = Closer(Top(before.openers))
           THEN [openers |-> Pop(before.openers), lines |-> Pop(before.lines)]
           ELSE before

\* C11: during and after a parse the two stacks hold exactly the openers
\* the cursor has passed and whose matching closer it has not passed
C11_EveryOpenerTracked ==
  status \in {"running", "returned", "threw", "crashed"} =>
     /\ bracketStack = Tracked(position).openers
     /\ lineStack = Tracked(position).lines

WhileBraceTokens ==
  << Token(KEYWORD, "while", 1), Pu("("), Pu("{"), Pu(")"), Pu("{"), Pu("}") >>

\* what the code does: parseExpression takes the '{' by advance() and pushes
\* nothing, so while ( { ) { } is accepted with the stacks empty at the end;
\* the two stacks always have the same length
C11_ExpressionBracketUntracked ==
  /\ Len(bracketStack) = Len(lineStack)
  /\ (tokens = WhileBraceTokens /\ position = 3 /\ status = "running")
        => (bracketStack = <<"(">> /\ lineStack = <<1>>)
  /\ (tokens = WhileBraceTokens /\ Terminal)
        => (status = "returned" /\ bracketStack = <<>> /\ position = 6)

(***************************************************************************)
(* C12.  Classification is priority-first, not longest-match: at each      *)
(* cursor position the first rule that matches there, in the order         *)
(* Keyword, Identifier, String literal, Operator, Punctuation, Whitespace, *)
(* Newline, Unknown, wins.  So "integer" yields Keyword "int" then         *)
(* Identifier "eger", and '<' and '>' are always Operator, never           *)
(* Punctuation.                                                            *)
(***************************************************************************)
KeywordTexts ==
  {"std", "ifstream", "ofstream", "fstream", "string", "while", "if", "else",
   "return", "int"}

\* the rules that match at offset p of the source, each by its own pattern
KeywordRuleAt(p) == \E i \in 1..Len(KeywordAlts) : HasPrefixAt(source, p, KeywordAlts[i])
IdentifierRuleAt(p) == source[p] \in IdStart
LiteralRuleAt(p) ==
  /\ source[p] = QUOTE
  /\ \E q \in (p + 1)..Len(source) :
        /\ source[q] = QUOTE
        /\ \A k \in (p + 1)..(q - 1) : source[k] \notin {QUOTE, LF, CR}
OperatorRuleAt(p) == \E i \in 1..Len(OperatorAlts) : HasPrefixAt(source, p, OperatorAlts[i])
PunctuationRuleAt(p) == source[p] \in PunctuationChars

\* the kind of the first rule, in the order of the claim, that matches at p
FirstRuleKind(p) ==
  IF KeywordRuleAt(p) THEN KEYWORD
  ELSE IF IdentifierRuleAt(p) THEN IDENTIFIER
  ELSE IF LiteralRuleAt(p) THEN LITERAL
  ELSE IF OperatorRuleAt(p) THEN OPERATOR
  ELSE IF PunctuationRuleAt(p) THEN PUNCTUATION
  ELSE UNKNOWN

Integer == <<"i","n","t","e","g","e","r">>

\* C12: every token of a tokenize() call has the kind of the first rule that
\* matches where it starts, a Keyword token is the keyword alone whatever
\* follows it, "integer" gives Keyword "int" and Identifier "eger", and a
\* token that starts with '<' or '>' is an Operator, never Punctuation
C12_PriorityFirst ==
  calls # <<>> =>
     /\ \A k \in 1..Len(LastCall) :
          /\ source[starts[k]] \notin {SPACE, TAB, LF}
          /\ LastCall[k].type = FirstRuleKind(starts[k])
          /\ KeywordRuleAt(starts[k]) => LastCall[k].value \in KeywordTexts
          /\ source[starts[k]] \in {"<", ">"} => LastCall[k].type = OPERATOR
          /\ LastCall[k].type = PUNCTUATION => LastCall[k].value \notin {"<", ">"}
     /\ source = Integer =>
          (Types(calls[1]) = <<KEYWORD, IDENTIFIER>>
             /\ Values(calls[1]) = <<"int", "eger">>)

\* "integer>" has been tokenized: a keyword split off a longer word, and a
\* '>' that both the operator and the punctuation rule match
C12_Witness ==
  /\ calls # <<>>
  /\ source = Integer \o <<">">>
  /\ Types(LastCall) = <<KEYWORD, IDENTIFIER, OPERATOR>>
  /\ Values(LastCall) = <<"int", "eger", ">">>

(***************************************************************************)
(* C13.  Every call of parseStatement that returns normally leaves both    *)
(* stacks at the depth they had on entry and advances the cursor by at     *)
(* least one token; hence whenever parseProgram reaches its end-of-input   *)
(* bracket check both stacks are empty and the mismatched-bracket branch   *)
(* is never taken.                                                         *)
(***************************************************************************)
\* parseStatement is about to return normally
StatementReturning == At("parseStatement", "ret")

\* parseProgram has left its loop and tests bracketStack.empty()
EndOfInputCheck == At("parseProgram", "loop") /\ isAtEnd(position)

\* C13: a parseStatement call that returns leaves bracketStack and lineStack
\* as deep as it found them and the cursor at least one token further; at
\* parseProgram's end-of-input check both stacks are empty, and no parse
\* ends in the mismatched-bracket error
C13_StatementsBalanced ==
  /\ StatementReturning =>
        /\ Len(bracketStack) = Top(frames).depth
        /\ Len(lineStack) = Top(frames).depth
        /\ position >= Top(frames).entry + 1
  /\ EndOfInputCheck => (bracketStack = <<>> /\ lineStack = <<>>)
  /\ status = "threw" => error.kind # Mismatched

\* a statement inside a '{' body returns: it was entered with one opener on
\* the stacks, has consumed brackets of its own, and leaves that one opener
C13_Witness ==
  /\ StatementReturning
  /\ Top(frames).depth = 1
  /\ bracketStack = <<"{">>
  /\ Len(lineStack) = 1
  /\ \E k \in (Top(frames).entry + 1)..position : tokens[k].value = "("

====
